---- MODULE Spec2Model ----
(***************************************************************************)
(* A model of the RAPTOR tree pipeline of raptor-ts: text splitting, the   *)
(* cluster tree builder (buildFromText / constructTree / performClustering)*)
(* and the tree retriever (collapsed-tree and layer-traversal retrieval).  *)
(*                                                                         *)
(* Texts are sequences of one-character strings.  The numeric clustering   *)
(* (UMAP + Gaussian mixture) and the embedding / summarization providers   *)
(* are oracles: their results are drawn from bounded sets.                 *)
(***************************************************************************)
EXTENDS Integers, Sequences, FiniteSets, TLC

VARIABLES builder, builds, retriever, retrieval, call, ra

vars == <<builder, builds, retriever, retrieval, call, ra>>

(***************************************************************************)
(* Bounds of the model.                                                    *)
(***************************************************************************)
\* builds started on one builder instance (they may overlap in time)
MaxBuilds == 2
\* nesting depth of performClustering calls that the model follows
MaxDepth == 2
\* mixture components the oracle may pick (the code allows up to 49)
MaxLabels == 2
\* leading nodes of a layer that the oracle treats one by one
MaxSoft == 3
\* token count of the lexical unit "L" (a long run without delimiters)
BigTok == 2000
\* the longest text given to splitText, in characters
MaxTextLen == 4
\* the documents saved in the document storage
MaxDocs == 3
\* the documents saved at once by a batch
MaxSaves == 3
\* the entries of an indexing state's documentIds
MaxIndexed == 4
\* the longest array given to indicesOfNearestNeighborsFromDistances
MaxDistances == 4
\* the largest coordinate of a vector given to cosineDistance
MaxCoord == 3
\* the largest vector (angle) of an embedding
MaxVec == 1
\* the largest topK of a retrieval
MaxTopK == 3
\* the largest maxTokens of a retrieval
MaxBudget == 4

\* default of performClustering's maxLengthInCluster
DefaultMaxLengthInCluster == 3500
\* default of TreeBuilderConfig.summarizationLength
DefaultSummarizationLength == 100

Min(a, b) == IF a < b THEN a ELSE b
Max(a, b) == IF a > b THEN a ELSE b

(***************************************************************************)
(* Sequences                                                               *)
(***************************************************************************)
\* the values of a function or sequence
Range(f) == {f[x] : x \in DOMAIN f}

RECURSIVE SeqSum(_)
SeqSum(s) == IF s = <<>> THEN 0 ELSE Head(s) + SeqSum(Tail(s))

RECURSIVE Flatten(_)
Flatten(ss) == IF ss = <<>> THEN <<>> ELSE Head(ss) \o Flatten(Tail(ss))

\* the elements of s at the positions in I, in order
SelectIdx(s, I) ==
  LET F[i \in 0..Len(s)] ==
        IF i = 0 THEN <<>>
        ELSE IF i \in I THEN Append(F[i-1], s[i]) ELSE F[i-1]
  IN F[Len(s)]

\* the elements of a finite set of integers, ascending
RECURSIVE SortedSeq(_)
SortedSeq(S) ==
  IF S = {} THEN <<>>
  ELSE LET m == CHOOSE x \in S : \A y \in S : x <= y
       IN <<m>> \o SortedSeq(S \ {m})

\* s without the repeated occurrences of an element (Set insertion order)
RECURSIVE Dedup(_)
Dedup(s) ==
  IF s = <<>> THEN <<>>
  ELSE LET r == Dedup(SubSeq(s, 1, Len(s) - 1))
           x == s[Len(s)]
       IN IF \E i \in 1..Len(r) : r[i] = x THEN r ELSE Append(r, x)

\* Array.prototype.slice(-n) for n > 0
LastN(s, n) == IF n >= Len(s) THEN s ELSE SubSeq(s, Len(s) - n + 1, Len(s))

(***************************************************************************)
(* Numbers and vectors                                                     *)
(***************************************************************************)
\* a JavaScript number: a value, or NaN
Num(v) == [nan |-> FALSE, val |-> v]
NaN == [nan |-> TRUE, val |-> 0]

\* x < y, false when either is NaN
Less(x, y) == ~x.nan /\ ~y.nan /\ x.val < y.val

\* the unit vector at k quarter turns from the first axis
UnitVector(k) ==
  IF k % 4 = 0 THEN <<1, 0>> ELSE IF k % 4 = 1 THEN <<0, 1>>
  ELSE IF k % 4 = 2 THEN <<-1, 0>> ELSE <<0, -1>>

(***************************************************************************)
(* Text: tokenizer, split, join, splitText                                 *)
(***************************************************************************)
Delimiters == {".", "!", "?", "\n"}
SubDelimiters == {",", ";", ":"}
Whitespace == {" ", "\n", "\t"}

\* tokenizer.encode(s).length for the injected tokenizer: one token per
\* character, the unit "L" standing for a run of BigTok tokens
Encode(s) == SeqSum([i \in 1..Len(s) |-> IF s[i] = "L" THEN BigTok ELSE 1])

\* String.prototype.split on a single-character delimiter class
RECURSIVE SplitFrom(_, _, _, _)
SplitFrom(s, D, i, cur) ==
  IF i > Len(s) THEN <<cur>>
  ELSE IF s[i] \in D THEN <<cur>> \o SplitFrom(s, D, i + 1, <<>>)
  ELSE SplitFrom(s, D, i + 1, Append(cur, s[i]))

Split(s, D) == SplitFrom(s, D, 1, <<>>)

\* s.trim() is a non-empty (truthy) string
TrimNonEmpty(s) == \E i \in 1..Len(s) : s[i] \notin Whitespace

FilterTrim(pieces) == SelectIdx(pieces, {i \in 1..Len(pieces) : TrimNonEmpty(pieces[i])})

\* Array.prototype.join(' ')
RECURSIVE Join(_)
Join(pieces) ==
  IF pieces = <<>> THEN <<>>
  ELSE IF Len(pieces) = 1 THEN pieces[1]
  ELSE pieces[1] \o <<" ">> \o Join(Tail(pieces))

PieceTokens(p) == Encode(<<" ">> \o p)

ChunkTokens(pieces) == SeqSum([i \in 1..Len(pieces) |-> PieceTokens(pieces[i])])

\* a carry-over of one unit whatever the overlap
CarryOver_One(chunk, overlap) == LastN(chunk, 1)

\* the chunk carried into the next one when a chunk is closed
CarryOver(chunk, overlap) == IF overlap > 0 THEN LastN(chunk, overlap) ELSE <<>>

\* the loop over the sub-sentences of a sentence longer than maxTokens
RECURSIVE SubLoop(_, _, _, _, _, _, _)
SubLoop(subs, i, chunks, subChunk, subLength, maxTokens, overlap) ==
  IF i > Len(subs)
  THEN IF Len(subChunk) > 0 THEN Append(chunks, Join(subChunk)) ELSE chunks
  ELSE LET subTokenCount == PieceTokens(subs[i])
           flush == subLength + subTokenCount > maxTokens /\ Len(subChunk) > 0
           chunks1 == IF flush THEN Append(chunks, Join(subChunk)) ELSE chunks
           subChunk1 == IF flush THEN CarryOver(subChunk, overlap) ELSE subChunk
           subLength1 == IF flush THEN ChunkTokens(subChunk1) ELSE subLength
       IN SubLoop(subs, i + 1, chunks1, Append(subChunk1, subs[i]),
                  subLength1 + subTokenCount, maxTokens, overlap)

\* a test that closes the chunk before every sentence
Closes_Always(currentLength, tokenCount, maxTokens) == currentLength > 0

\* else if (currentLength + tokenCount > maxTokens)
Closes(currentLength, tokenCount, maxTokens) ==
  currentLength + tokenCount > maxTokens

\* the loop over the sentences
RECURSIVE SentenceLoop(_, _, _, _, _, _, _)
SentenceLoop(sentences, i, chunks, currentChunk, currentLength, maxTokens, overlap) ==
  IF i > Len(sentences)
  THEN IF Len(currentChunk) > 0 THEN Append(chunks, Join(currentChunk)) ELSE chunks
  ELSE LET sentence == sentences[i]
           tokenCount == PieceTokens(sentence)
       IN IF tokenCount > maxTokens
          THEN SentenceLoop(sentences, i + 1,
                 SubLoop(FilterTrim(Split(sentence, SubDelimiters)), 1, chunks,
                         <<>>, 0, maxTokens, overlap),
                 currentChunk, currentLength, maxTokens, overlap)
          ELSE IF Closes(currentLength, tokenCount, maxTokens)
          THEN LET carried == CarryOver(currentChunk, overlap)
               IN SentenceLoop(sentences, i + 1,
                    Append(chunks, Join(currentChunk)),
                    Append(carried, sentence),
                    ChunkTokens(carried) + tokenCount, maxTokens, overlap)
          ELSE SentenceLoop(sentences, i + 1, chunks,
                 Append(currentChunk, sentence),
                 currentLength + tokenCount, maxTokens, overlap)

splitText(text, maxTokens, overlap) ==
  SentenceLoop(FilterTrim(Split(text, Delimiters)), 1, <<>>, <<>>, 0,
               maxTokens, overlap)

(***************************************************************************)
(* Nodes, maps and trees                                                   *)
(***************************************************************************)
\* new Node(text, index, children, embeddings): the text is kept as its
\* token count; embeddings maps model names to vectors, and a vector is a
\* tuple of integers
Node(index, tokens, children, embeddings) ==
  [index |-> index, tokens |-> tokens, children |-> children,
   embeddings |-> embeddings]

EmptyMap == [i \in {} |-> 0]

\* Map.prototype.set
MapSet(m, k, v) == [i \in DOMAIN m \cup {k} |-> IF i = k THEN v ELSE m[i]]

\* Array.from(map.values()) of a map filled in ascending key order
MapValues(m) == LET ks == SortedSeq(DOMAIN m) IN [i \in 1..Len(ks) |-> m[ks[i]]]

getNodeList(nodeDict) ==
  LET indices == SortedSeq(DOMAIN nodeDict)
  IN [i \in 1..Len(indices) |-> nodeDict[indices[i]]]

Tree(allNodes, rootNodes, leafNodes, nLayers, layerToNodes) ==
  [allNodes |-> allNodes, rootNodes |-> rootNodes, leafNodes |-> leafNodes,
   numLayers |-> nLayers, layerToNodes |-> layerToNodes]

\* no call of a function of utils.ts or tree_structures.ts has been made
NoCall == [fn |-> "none"]

\* a RetrievalAugmentation with empty document and collection storages and
\* nothing indexed
NoDocuments == [documents |-> {}, collections |-> EmptyMap, indexed |-> <<>>]

NoTree == [numLayers |-> -1]
NoError == [kind |-> "none"]
MissingEmbedding(index, model) ==
  [kind |-> "MissingEmbedding", node |-> index, model |-> model]

(***************************************************************************)
(* RAPTORClustering.performClustering                                      *)
(***************************************************************************)
\* a check that lets every node pass
FirstMissing_Skip(nodes, embeddingModelName) == 0

\* the first node of the list without an embedding of the named model
\* (0 when every node has one): the node the embedding check throws at
FirstMissing(nodes, embeddingModelName) ==
  LET bad == {i \in 1..Len(nodes) :
                embeddingModelName \notin DOMAIN nodes[i].embeddings}
  IN IF bad = {} THEN 0 ELSE CHOOSE i \in bad : \A j \in bad : i <= j

\* the component counts getOptimalClusters can return for n points
ComponentCounts(n) == 1..Min(MaxLabels, Max(Min(50, n) - 1, 1))

\* the label sets the thresholded responsibilities can give n points with
\* k components: the points fall into k runs, one per component, that end
\* among the first MaxSoft points; one of these points may exceed the
\* threshold for every component; the last point, or every point, may
\* exceed it for none
Labelings(n, k) ==
  LET cutSets == {c \in SUBSET (1..Min(n - 1, MaxSoft)) : Cardinality(c) = k - 1}
      run(c, i) == Cardinality({x \in c : x < i})
  IN {[i \in 1..n |->
         IF drop = "all" \/ (drop = "last" /\ i = n) THEN {}
         ELSE IF i = soft THEN 0..(k - 1)
         ELSE {run(c, i)}] :
        c \in cutSets, soft \in 0..Min(n, MaxSoft), drop \in {"none", "last", "all"}}

\* new Set(labels.flat()) in insertion order
UniqueLabels(labels) ==
  Dedup(Flatten([i \in 1..Len(labels) |-> SortedSeq(labels[i])]))

\* the members of each label, in label order
LabelClusters(nodes, labels) ==
  LET uniqueLabels == UniqueLabels(labels)
  IN [c \in 1..Len(uniqueLabels) |->
        SelectIdx(nodes, {i \in 1..Len(nodes) : uniqueLabels[c] \in labels[i]})]

totalLength(clusterNodes) ==
  SeqSum([i \in 1..Len(clusterNodes) |-> clusterNodes[i].tokens])

\* a label loop that never re-clusters
NeedsRecluster_Never(clusterNodes, maxLengthInCluster) == FALSE

NeedsRecluster(clusterNodes, maxLengthInCluster) ==
  /\ Len(clusterNodes) # 1
  /\ totalLength(clusterNodes) > maxLengthInCluster

\* a call of performClustering: its nodes, whether it has still to fit the
\* mixture, the clusters the label loop has not reached, and nodeClusters
Frame(nodes) == [nodes |-> nodes, fresh |-> TRUE, todo |-> <<>>, acc |-> <<>>]

\* the label loop up to the first cluster that is re-clustered
RECURSIVE LabelLoop(_, _)
LabelLoop(frame, maxLengthInCluster) ==
  IF frame.todo = <<>> THEN frame
  ELSE IF NeedsRecluster(Head(frame.todo), maxLengthInCluster) THEN frame
  ELSE LabelLoop([frame EXCEPT !.todo = Tail(@),
                               !.acc = Append(@, Head(frame.todo))],
                 maxLengthInCluster)

\* the call stack after the top frame ran its label loop: a recursive call
\* is pushed for the cluster it stopped at
Resume(stack, frame, maxLengthInCluster) ==
  LET f == LabelLoop(frame, maxLengthInCluster)
      below == SubSeq(stack, 1, Len(stack) - 1)
  IN IF f.todo = <<>> THEN Append(below, f)
     ELSE below \o <<[f EXCEPT !.todo = Tail(@)], Frame(Head(f.todo))>>

(***************************************************************************)
(* TreeBuilder / ClusterTreeBuilder: one builder instance, several builds  *)
(***************************************************************************)
Builds == 1..MaxBuilds

EmbeddingModelNames == {"OpenAI", "SBert"}

\* the builder instances of the model (ClusterTreeConfig): the embedding
\* models are {"OpenAI"}; clusterEmbeddingModel may name a model that is
\* not among them
BuilderConfigs ==
  [maxTokens : {2},
   numLayers : {1, 2},
   reductionDimension : {1, 10},
   summarizationLength : {DefaultSummarizationLength},
   embeddingModels : {{"OpenAI"}},
   clusterEmbeddingModel : EmbeddingModelNames]

RECURSIVE Repeat(_, _)
Repeat(s, n) == IF n = 0 THEN <<>> ELSE s \o Repeat(s, n - 1)

\* the input texts of the builds: n one-word sentences, texts with the long
\* unit "L", and a text with a blank sentence and a sentence that is split
\* at its comma
BuildTexts ==
  {Repeat(<<"a", ".">>, n) : n \in {1, 3, 11, 12}}
    \cup {<<"L", ".", "L", ".", "a", ".">>, <<"L", ",", "L", ".", "a", ".">>,
          <<" ", ".", "a", ",", "a", ".", "a">>}

\* a text of a single chunk
ShortTexts == {<<"a", ".">>}

\* build 1 takes any of the texts; the builds that overlap with it take a
\* short text
TextsFor(b) == IF b = 1 THEN BuildTexts ELSE ShortTexts

\* the length of the text summarize(context, maxTokens) returns: the
\* provider is called with max_tokens = maxTokens (a node's text is read
\* only through its token count, so the wording is left out)
summarize(contextTokens, maxTokens) == Min(contextTokens, maxTokens)

IdleBuild ==
  [pc |-> "idle", leafNodes |-> EmptyMap, allNodes |-> EmptyMap,
   layerToNodes |-> EmptyMap, current |-> EmptyMap, layer |-> 0,
   nextNodeIndex |-> 0, stack |-> <<>>, clusters |-> <<>>,
   newLevelNodes |-> EmptyMap, created |-> <<>>, error |-> NoError,
   tree |-> NoTree]

\* model.createEmbedding(text): texts of the same length get the same vector
createEmbedding(tokens) == UnitVector(tokens % (MaxVec + 1))

createNode(index, tokens, childrenIndices, embeddingModels) ==
  Node(index, tokens, childrenIndices,
       [modelName \in embeddingModels |-> createEmbedding(tokens)])

\* the leaf loop of buildFromText: chunk i becomes leaf i when it is truthy
LeafNodes(chunks, embeddingModels) ==
  [i \in {j \in 0..(Len(chunks) - 1) : chunks[j + 1] # <<>>} |->
     createNode(i, Encode(chunks[i + 1]), {}, embeddingModels)]

\* numbering that starts one too low
FirstParentIndex_OffByOne(allTreeNodes) == Cardinality(DOMAIN allTreeNodes) - 1

\* let nextNodeIndex = allTreeNodes.size
FirstParentIndex(allTreeNodes) == Cardinality(DOMAIN allTreeNodes)

\* a layer loop without the stop test
StopsEarly_Never(nodeListCurrentLayer, reductionDimension) == FALSE

\* a stop test with < in place of <=
StopsEarly_Strict(nodeListCurrentLayer, reductionDimension) ==
  Len(nodeListCurrentLayer) < reductionDimension + 1

\* nodeListCurrentLayer.length <= this.reductionDimension + 1
StopsEarly(nodeListCurrentLayer, reductionDimension) ==
  Len(nodeListCurrentLayer) <= reductionDimension + 1

\* new Set(cluster.map(node => node.index))
ChildrenIndices(cluster) == {cluster[i].index : i \in 1..Len(cluster)}

\* a layer loop that does not register the new layer's nodes
MergeInto_Forget(allTreeNodes, newLevelNodes) == allTreeNodes

\* for (const [index, node] of newLevelNodes) allTreeNodes.set(index, node)
MergeInto(allTreeNodes, newLevelNodes) ==
  [i \in DOMAIN allTreeNodes \cup DOMAIN newLevelNodes |->
     IF i \in DOMAIN newLevelNodes THEN newLevelNodes[i] ELSE allTreeNodes[i]]

\* buildFromText up to the call of constructTree
BuildFromText(b, text) ==
  /\ builds[b].pc = "idle"
  /\ LET chunks == splitText(text, builder.maxTokens, 0)
         leafNodes == LeafNodes(chunks, builder.embeddingModels)
     IN builds' = [builds EXCEPT ![b] =
          [@ EXCEPT !.pc = "loop",
                    !.leafNodes = leafNodes,
                    !.layerToNodes = MapSet(EmptyMap, 0, MapValues(leafNodes)),
                    !.allNodes = leafNodes,
                    !.current = leafNodes,
                    !.layer = 0,
                    !.nextNodeIndex = FirstParentIndex(leafNodes),
                    !.created = SortedSeq(DOMAIN leafNodes)]]
  /\ UNCHANGED <<builder, retriever, retrieval, call, ra>>

\* the head of constructTree's layer loop: the loop test, the early stop,
\* the call of performClustering
LayerCheck(b) ==
  /\ builds[b].pc = "loop"
  /\ LET nodeListCurrentLayer == getNodeList(builds[b].current)
     IN IF ~(builds[b].layer < builder.numLayers)
        THEN /\ builds' = [builds EXCEPT ![b].pc = "return"]
             /\ UNCHANGED builder
        ELSE IF StopsEarly(nodeListCurrentLayer, builder.reductionDimension)
        THEN /\ builder' = [builder EXCEPT !.numLayers = builds[b].layer]
             /\ builds' = [builds EXCEPT ![b].pc = "return"]
        ELSE /\ builds' = [builds EXCEPT ![b].pc = "cluster",
                                         ![b].newLevelNodes = EmptyMap,
                                         ![b].stack = <<Frame(nodeListCurrentLayer)>>]
             /\ UNCHANGED builder
  /\ UNCHANGED <<retriever, retrieval, call, ra>>

\* a call of performClustering: the embedding check, the mixture fit (the
\* oracle), then the label loop
ClusterEnter(b) ==
  /\ builds[b].pc = "cluster"
  /\ LET stack == builds[b].stack
         top == stack[Len(stack)]
         missing == FirstMissing(top.nodes, builder.clusterEmbeddingModel)
     IN /\ top.fresh
        /\ IF missing # 0
           THEN builds' = [builds EXCEPT
                  ![b].pc = "failed",
                  ![b].stack = <<>>,
                  ![b].error = MissingEmbedding(top.nodes[missing].index,
                                                builder.clusterEmbeddingModel)]
           ELSE \E k \in ComponentCounts(Len(top.nodes)) :
                  \E labels \in Labelings(Len(top.nodes), k) :
                    LET frame == [top EXCEPT !.fresh = FALSE,
                                    !.todo = LabelClusters(top.nodes, labels)]
                        next == Resume(stack, frame, DefaultMaxLengthInCluster)
                    IN /\ Len(next) <= MaxDepth
                       /\ builds' = [builds EXCEPT ![b].stack = next]
  /\ UNCHANGED <<builder, retriever, retrieval, call, ra>>

\* a call of performClustering returns its nodeClusters: to the call that
\* awaits it, or to constructTree
ClusterReturn(b) ==
  /\ builds[b].pc = "cluster"
  /\ LET stack == builds[b].stack
         top == stack[Len(stack)]
     IN /\ ~top.fresh
        /\ top.todo = <<>>
        /\ IF Len(stack) = 1
           THEN builds' = [builds EXCEPT ![b].pc = "summarize",
                                         ![b].stack = <<>>,
                                         ![b].clusters = top.acc]
           ELSE LET below == SubSeq(stack, 1, Len(stack) - 1)
                    caller == below[Len(below)]
                IN builds' = [builds EXCEPT ![b].stack =
                     Resume(below, [caller EXCEPT !.acc = @ \o top.acc],
                            DefaultMaxLengthInCluster)]
  /\ UNCHANGED <<builder, retriever, retrieval, call, ra>>

\* the body of the cluster loop: summarize, createNode, newLevelNodes.set
CreateParent(b) ==
  /\ builds[b].pc = "summarize"
  /\ builds[b].clusters # <<>>
  /\ LET cluster == Head(builds[b].clusters)
         summaryTokens == summarize(totalLength(cluster),
                                    builder.summarizationLength)
         nextNodeIndex == builds[b].nextNodeIndex
         newParentNode == createNode(nextNodeIndex, summaryTokens,
                                     ChildrenIndices(cluster),
                                     builder.embeddingModels)
     IN builds' = [builds EXCEPT
            ![b].clusters = Tail(@),
            ![b].newLevelNodes = MapSet(@, nextNodeIndex, newParentNode),
            ![b].nextNodeIndex = nextNodeIndex + 1,
            ![b].created = Append(@, nextNodeIndex)]
  /\ UNCHANGED <<builder, retriever, retrieval, call, ra>>

\* the end of the layer loop's body
EndLayer(b) ==
  /\ builds[b].pc = "summarize"
  /\ builds[b].clusters = <<>>
  /\ LET newLevelNodes == builds[b].newLevelNodes
     IN builds' = [builds EXCEPT
          ![b].layerToNodes = MapSet(@, builds[b].layer + 1, MapValues(newLevelNodes)),
          ![b].current = newLevelNodes,
          ![b].allNodes = MergeInto(@, newLevelNodes),
          ![b].layer = @ + 1,
          ![b].pc = "loop"]
  /\ UNCHANGED <<builder, retriever, retrieval, call, ra>>

\* buildFromText after constructTree has returned currentLevelNodes
BuildReturn(b) ==
  /\ builds[b].pc = "return"
  /\ builds' = [builds EXCEPT
       ![b].pc = "done",
       ![b].tree = Tree(builds[b].allNodes, builds[b].current,
                        builds[b].leafNodes, builder.numLayers,
                        builds[b].layerToNodes)]
  /\ UNCHANGED <<builder, retriever, retrieval, call, ra>>

(***************************************************************************)
(* utils.ts: embeddings, distances, nearest neighbours                     *)
(***************************************************************************)
\* a node without the embedding is skipped with a warning, so the result can
\* be shorter than nodeList
getEmbeddings(nodeList, embeddingModel) ==
  LET has(n) == embeddingModel \in DOMAIN n.embeddings
      kept == SelectSeq(nodeList, has)
  IN [i \in 1..Len(kept) |-> kept[i].embeddings[embeddingModel]]

\* a.reduce((sum, val, i) => sum + val * b[i], 0)
Dot(a, b) == SeqSum([i \in 1..Len(a) |-> a[i] * b[i]])

\* Math.sqrt of the sum of squares: the vectors of the model lie along an
\* axis, so the root is an integer
Norm(a) == CHOOSE n \in 0..Dot(a, a) : n * n = Dot(a, a)

\* the quotient x / y of two numbers: 0 / 0 is NaN (x is 0 whenever y is,
\* and the quotients of the model are whole)
Quotient(x, y) == IF y = 0 THEN NaN ELSE Num(x \div y)

\* 1 - q
OneMinus(q) == IF q.nan THEN NaN ELSE Num(1 - q.val)

\* utils.ts: 1 - dotProduct / (normA * normB), no test of the norms
cosineDistance(a, b) == OneMinus(Quotient(Dot(a, b), Norm(a) * Norm(b)))

distancesFromEmbeddings(queryEmbedding, embeddings) ==
  [i \in 1..Len(embeddings) |-> cosineDistance(queryEmbedding, embeddings[i])]

\* a sort that puts the later of two equally distant entries first
indicesOfNearestNeighborsFromDistances_Unstable(distances) ==
  LET n == Len(distances)
      rank(i) == Cardinality({j \in 1..n :
                   \/ Less(distances[j], distances[i])
                   \/ /\ ~Less(distances[i], distances[j])
                      /\ j > i})
  IN [p \in 1..n |-> (CHOOSE i \in 1..n : rank(i) = p - 1) - 1]

\* the 0-based positions of distances in ascending order of distance;
\* Array.prototype.sort is stable, so equal distances keep their order
indicesOfNearestNeighborsFromDistances(distances) ==
  LET n == Len(distances)
      rank(i) == Cardinality({j \in 1..n :
                   \/ Less(distances[j], distances[i])
                   \/ /\ ~Less(distances[i], distances[j])
                      /\ j < i})
  IN [p \in 1..n |-> (CHOOSE i \in 1..n : rank(i) = p - 1) - 1]

\* Array.prototype.slice(0, n)
Slice(s, n) == SubSeq(s, 1, Min(Max(n, 0), Len(s)))

(***************************************************************************)
(* TreeRetriever                                                           *)
(***************************************************************************)
\* the constructor: numLayers and startLayer default from the tree
TreeRetriever(config, tree) ==
  [tree |-> tree,
   numLayers |-> tree.numLayers + 1,
   startLayer |-> tree.numLayers,
   topK |-> config.topK,
   threshold |-> config.threshold,
   selectionMode |-> config.selectionMode,
   contextEmbeddingModel |-> config.contextEmbeddingModel]

\* a budget test that never stops the walk
Overflows_Never(totalTokens, nodeTokens, maxTokens) == FALSE

\* if (totalTokens + nodeTokens > maxTokens) break
Overflows(totalTokens, nodeTokens, maxTokens) ==
  totalTokens + nodeTokens > maxTokens

\* the loop over indices.slice(0, topK) of retrieveInformationCollapseTree
RECURSIVE CollapseWalk(_, _, _, _, _)
CollapseWalk(indices, nodeList, selectedNodes, totalTokens, maxTokens) ==
  IF indices = <<>> THEN selectedNodes
  ELSE LET idx == Head(indices)
       IN IF idx + 1 > Len(nodeList)
          THEN CollapseWalk(Tail(indices), nodeList, selectedNodes,
                            totalTokens, maxTokens)
          ELSE LET node == nodeList[idx + 1]
                   nodeTokens == node.tokens
               IN IF Overflows(totalTokens, nodeTokens, maxTokens)
                  THEN selectedNodes
                  ELSE CollapseWalk(Tail(indices), nodeList,
                                    Append(selectedNodes, node),
                                    totalTokens + nodeTokens, maxTokens)

retrieveInformationCollapseTree(r, queryEmbedding, topK, maxTokens) ==
  LET nodeList == getNodeList(r.tree.allNodes)
      embeddings == getEmbeddings(nodeList, r.contextEmbeddingModel)
      distances == distancesFromEmbeddings(queryEmbedding, embeddings)
      indices == indicesOfNearestNeighborsFromDistances(distances)
  IN CollapseWalk(Slice(indices, topK), nodeList, <<>>, 0, maxTokens)

\* bestIndices of one iteration of retrieveInformation
BestIndices(r, queryEmbedding, nodeList) ==
  LET embeddings == getEmbeddings(nodeList, r.contextEmbeddingModel)
      distances == distancesFromEmbeddings(queryEmbedding, embeddings)
      indices == indicesOfNearestNeighborsFromDistances(distances)
      far(index) == Less(Num(r.threshold), distances[index + 1])
  IN IF r.selectionMode = "threshold"
     THEN SelectSeq(indices, far)
     ELSE Slice(indices, r.topK)

\* bestIndices.map(idx => nodeList[idx]).filter(node => node !== undefined)
NodesToAdd(bestIndices, nodeList) ==
  LET defined == SelectSeq(bestIndices, LAMBDA idx : idx + 1 <= Len(nodeList))
  IN [i \in 1..Len(defined) |-> nodeList[defined[i] + 1]]

\* a descent into the children of every candidate, chosen or not
ChildNodes_OfCandidates(bestIndices, nodeList, allNodes) ==
  LET childNodes == Dedup(Flatten([i \in 1..Len(nodeList) |->
                       SortedSeq(nodeList[i].children)]))
      resolved == SelectSeq(childNodes, LAMBDA i : i \in DOMAIN allNodes)
  IN [i \in 1..Len(resolved) |-> allNodes[resolved[i]]]

\* the next nodeList: the children of the chosen nodes, in insertion order,
\* those missing from allNodes dropped
ChildNodes(bestIndices, nodeList, allNodes) ==
  LET chosen == NodesToAdd(bestIndices, nodeList)
      childNodes == Dedup(Flatten([i \in 1..Len(chosen) |->
                       SortedSeq(chosen[i].children)]))
      resolved == SelectSeq(childNodes, LAMBDA i : i \in DOMAIN allNodes)
  IN [i \in 1..Len(resolved) |-> allNodes[resolved[i]]]

NoRetriever == [tree |-> NoTree]
NoRetrieval ==
  [pc |-> "idle", mode |-> "none", queryEmbedding |-> <<0, 0>>, topK |-> 0,
   maxTokens |-> 0, startLayer |-> 0, numLayers |-> 0, layer |-> 0,
   nodeList |-> <<>>, selectedNodes |-> <<>>, rounds |-> <<>>,
   error |-> NoError]

NoNodesForLayer(startLayer) == [kind |-> "NoNodesForLayer", layer |-> startLayer]

\* the query texts of a retrieval
Queries == {<<"a">>, <<"a", "a">>}

\* retrieve(query, undefined, undefined, topK, maxTokens, true)
RetrieveCollapsed(query, topK, maxTokens) ==
  /\ retrieval.pc = "idle"
  /\ retriever # NoRetriever
  /\ LET queryEmbedding == createEmbedding(Encode(query))
     IN retrieval' = [retrieval EXCEPT
          !.pc = "done", !.mode = "collapsed",
          !.queryEmbedding = queryEmbedding,
          !.topK = topK, !.maxTokens = maxTokens,
          !.startLayer = retriever.startLayer,
          !.numLayers = retriever.numLayers,
          !.selectedNodes = retrieveInformationCollapseTree(
                              retriever, queryEmbedding, topK, maxTokens)]
  /\ UNCHANGED <<builder, builds, retriever, call, ra>>

\* retrieve(query, startLayer, numLayers, topK, maxTokens, false) up to the
\* loop of retrieveInformation, which is not passed topK and maxTokens
RetrieveLayers(query, startLayer, numLayers, topK) ==
  /\ retrieval.pc = "idle"
  /\ retriever # NoRetriever
  /\ IF startLayer \notin DOMAIN retriever.tree.layerToNodes
     THEN retrieval' = [retrieval EXCEPT
            !.pc = "failed", !.mode = "layers", !.topK = topK,
            !.startLayer = startLayer, !.numLayers = numLayers,
            !.error = NoNodesForLayer(startLayer)]
     ELSE retrieval' = [retrieval EXCEPT
            !.pc = "loop", !.mode = "layers", !.topK = topK,
            !.queryEmbedding = createEmbedding(Encode(query)),
            !.startLayer = startLayer, !.numLayers = numLayers,
            !.nodeList = retriever.tree.layerToNodes[startLayer]]
  /\ UNCHANGED <<builder, builds, retriever, call, ra>>

\* one iteration of the loop of retrieveInformation
LayerIteration ==
  /\ retrieval.pc = "loop"
  /\ retrieval.layer < retrieval.numLayers
  /\ LET nodeList == retrieval.nodeList
         bestIndices == BestIndices(retriever, retrieval.queryEmbedding, nodeList)
         nodesToAdd == NodesToAdd(bestIndices, nodeList)
     IN retrieval' = [retrieval EXCEPT
          !.selectedNodes = @ \o nodesToAdd,
          !.rounds = Append(@, nodesToAdd),
          !.nodeList = IF retrieval.layer # retrieval.numLayers - 1
                       THEN ChildNodes(bestIndices, nodeList,
                                       retriever.tree.allNodes)
                       ELSE @,
          !.layer = @ + 1]
  /\ UNCHANGED <<builder, builds, retriever, call, ra>>

\* the loop of retrieveInformation is over: the selected nodes are returned
LayersReturn ==
  /\ retrieval.pc = "loop"
  /\ retrieval.layer >= retrieval.numLayers
  /\ retrieval' = [retrieval EXCEPT !.pc = "done"]
  /\ UNCHANGED <<builder, builds, retriever, call, ra>>

(***************************************************************************)
(* The trees a retriever is given: built by a TreeBuilder or loaded with   *)
(* Tree.fromJSON, so a node may carry the vectors of another model only    *)
(***************************************************************************)
\* the node sets that lack the context embedding: none, one node, all
LackingSets(indices) == {{}} \cup {{i} : i \in indices} \cup {indices}

\* a tree of the given shape: children maps each index to its children,
\* layers lists the indices of each layer from the leaves up
MakeTree(children, layers, tokens, vectors, lacking) ==
  LET node(i) == Node(i, tokens[i], children[i],
                      [m \in (IF i \in lacking THEN {"SBert"} ELSE {"OpenAI"})
                         |-> UnitVector(vectors[i])])
      nodesOf(S) == [i \in S |-> node(i)]
      top == Len(layers)
  IN Tree(nodesOf(DOMAIN children), nodesOf(layers[top]), nodesOf(layers[1]),
          top - 1,
          [l \in 0..(top - 1) |-> MapValues(nodesOf(layers[l + 1]))])

\* the token counts of the nodes of a retriever's tree
TokenCounts == {1, 2}

\* three leaves under one parent, every token count and vector
CollapseTrees ==
  LET indices == 0..3
      children == [i \in indices |-> IF i = 3 THEN {0, 1, 2} ELSE {}]
  IN {MakeTree(children, <<{0, 1, 2}, {3}>>, tokens, vectors, lacking) :
        tokens \in [indices -> TokenCounts],
        vectors \in [indices -> 0..MaxVec],
        lacking \in LackingSets(indices)}

\* three leaves under two parents whose clusters may overlap or leave a
\* leaf out, every vector
TraverseTrees ==
  LET indices == 0..4
      shapes == {[i \in indices |-> IF i = 3 THEN c3 ELSE IF i = 4 THEN c4 ELSE {}] :
                   c3 \in {{0}, {0, 1}}, c4 \in {{2}, {1, 2}}}
  IN {MakeTree(children, <<{0, 1, 2}, {3, 4}>>, [i \in indices |-> 1],
               vectors, lacking) :
        children \in shapes,
        vectors \in [indices -> 0..MaxVec],
        lacking \in LackingSets(indices)}

CollapseConfig ==
  [topK |-> 5, threshold |-> 0, selectionMode |-> "top_k",
   contextEmbeddingModel |-> "OpenAI"]

TraverseConfigs ==
  {[topK |-> k, threshold |-> 0, selectionMode |-> "top_k",
    contextEmbeddingModel |-> "OpenAI"] : k \in 1..2}
  \cup {[topK |-> 5, threshold |-> 0, selectionMode |-> "threshold",
         contextEmbeddingModel |-> "OpenAI"]}

IdleBuilder == CHOOSE c \in BuilderConfigs : TRUE

InitCollapse ==
  /\ builder = IdleBuilder
  /\ builds = [b \in Builds |-> IdleBuild]
  /\ retriever \in {TreeRetriever(CollapseConfig, t) : t \in CollapseTrees}
  /\ retrieval = NoRetrieval
  /\ call = NoCall
  /\ ra = NoDocuments

NextCollapse ==
  \E query \in Queries, topK \in 1..MaxTopK, maxTokens \in 0..MaxBudget :
    RetrieveCollapsed(query, topK, maxTokens)

SpecCollapse == InitCollapse /\ [][NextCollapse]_vars

InitTraverse ==
  /\ builder = IdleBuilder
  /\ builds = [b \in Builds |-> IdleBuild]
  /\ retriever \in {TreeRetriever(c, t) : c \in TraverseConfigs, t \in TraverseTrees}
  /\ retrieval = NoRetrieval
  /\ call = NoCall
  /\ ra = NoDocuments

NextTraverse ==
  \/ \E query \in Queries, startLayer \in 0..2, numLayers \in 1..2,
        topK \in {1, MaxTopK} :
       RetrieveLayers(query, startLayer, numLayers, topK)
  \/ LayerIteration
  \/ LayersReturn
  \/ \E query \in Queries : RetrieveCollapsed(query, MaxTopK, MaxBudget)

SpecTraverse == InitTraverse /\ [][NextTraverse]_vars

InitBuild ==
  /\ builder \in BuilderConfigs
  /\ builds = [b \in Builds |-> IdleBuild]
  /\ retriever = NoRetriever
  /\ retrieval = NoRetrieval
  /\ call = NoCall
  /\ ra = NoDocuments

NextBuild ==
  \E b \in Builds :
    \/ \E text \in TextsFor(b) : BuildFromText(b, text)
    \/ LayerCheck(b)
    \/ ClusterEnter(b)
    \/ ClusterReturn(b)
    \/ CreateParent(b)
    \/ EndLayer(b)
    \/ BuildReturn(b)

SpecBuild == InitBuild /\ [][NextBuild]_vars

\* the node lists performClustering is run on by itself: the leaves of a text
ClusterInputs ==
  {MapValues(LeafNodes(splitText(text, 2, 0), {"OpenAI"})) :
     text \in {Repeat(<<"a", ".">>, 3), Repeat(<<"a", ".">>, 4),
               <<"L", ".", "L", ".", "a", ".">>}}

\* every run is a call of performClustering on the same node list with the
\* same parameters
InitCluster ==
  /\ builder \in {c \in BuilderConfigs : c.numLayers = 1 /\ c.reductionDimension = 1}
  /\ \E nodes \in ClusterInputs :
       builds = [b \in Builds |->
                  [IdleBuild EXCEPT !.pc = "cluster", !.stack = <<Frame(nodes)>>]]
  /\ retriever = NoRetriever
  /\ retrieval = NoRetrieval
  /\ call = NoCall
  /\ ra = NoDocuments

NextCluster ==
  \E b \in Builds :
    \/ ClusterEnter(b)
    \/ ClusterReturn(b)

SpecCluster == InitCluster /\ [][NextCluster]_vars

(***************************************************************************)
(* utils.ts called by itself: splitText                                    *)
(***************************************************************************)
ABC == <<"A", ".", " ", "B", ".", " ", "C", ".">>

\* every text of at most MaxTextLen characters over a letter, a sentence
\* delimiter, a sub-delimiter and a blank, and the text "A. B. C."
SplitTexts ==
  UNION {[1..n -> {"a", ".", ",", " "}] : n \in 0..MaxTextLen} \cup {ABC}

SplitBudgets == {2, 4, 1000}

\* splitText(text, tokenizer, maxTokens, overlap)
SplitTextCall(text, maxTokens, overlap) ==
  /\ call = NoCall
  /\ call' = [fn |-> "splitText", text |-> text, maxTokens |-> maxTokens,
              overlap |-> overlap,
              chunks |-> splitText(text, maxTokens, overlap)]
  /\ UNCHANGED <<builder, builds, retriever, retrieval, ra>>

InitCall ==
  /\ builder = IdleBuilder
  /\ builds = [b \in Builds |-> IdleBuild]
  /\ retriever = NoRetriever
  /\ retrieval = NoRetrieval
  /\ call = NoCall
  /\ ra = NoDocuments

NextSplit ==
  \E text \in SplitTexts, maxTokens \in SplitBudgets, overlap \in 0..1 :
    SplitTextCall(text, maxTokens, overlap)

SpecSplit == InitCall /\ [][NextSplit]_vars

(***************************************************************************)
(* utils.ts called by itself: cosineDistance                               *)
(***************************************************************************)
\* the zero vector and the vectors along an axis of the plane
CosineVectors ==
  {<<0, 0>>} \cup UNION {{<<k, 0>>, <<-k, 0>>, <<0, k>>, <<0, -k>>} : k \in 1..MaxCoord}

\* cosineDistance(a, b)
CosineDistanceCall(a, b) ==
  /\ call = NoCall
  /\ call' = [fn |-> "cosineDistance", a |-> a, b |-> b,
              result |-> cosineDistance(a, b)]
  /\ UNCHANGED <<builder, builds, retriever, retrieval, ra>>

NextCosine == \E a, b \in CosineVectors : CosineDistanceCall(a, b)

SpecCosine == InitCall /\ [][NextCosine]_vars

(***************************************************************************)
(* utils.ts called by itself: indicesOfNearestNeighborsFromDistances       *)
(***************************************************************************)
\* the distances of an array, in tenths
DistanceValues == {Num(1), Num(2), Num(3)}

DistanceArrays == UNION {[1..n -> DistanceValues] : n \in 0..MaxDistances}

\* indicesOfNearestNeighborsFromDistances(distances)
NearestNeighborsCall(distances) ==
  /\ call = NoCall
  /\ call' = [fn |-> "indicesOfNearestNeighborsFromDistances",
              distances |-> distances,
              indices |-> indicesOfNearestNeighborsFromDistances(distances)]
  /\ UNCHANGED <<builder, builds, retriever, retrieval, ra>>

NextNearest == \E distances \in DistanceArrays : NearestNeighborsCall(distances)

SpecNearest == InitCall /\ [][NextNearest]_vars

(***************************************************************************)
(* tree_structures.ts: toJSON and fromJSON                                 *)
(***************************************************************************)
\* Node.toJSON: the children set becomes an array
NodeToJSON(node) ==
  [index |-> node.index, tokens |-> node.tokens,
   children |-> SortedSeq(node.children), embeddings |-> node.embeddings]

\* a Node.fromJSON that loses the children
NodeFromJSON_NoChildren(data) ==
  Node(data.index, data.tokens, {}, data.embeddings)

\* Node.fromJSON: the children array becomes a set again
NodeFromJSON(data) ==
  Node(data.index, data.tokens, Range(data.children), data.embeddings)

\* Array.from(map.entries()).map(([key, node]) => [key, node.toJSON()])
serializeNodeMap(map) ==
  LET keys == SortedSeq(DOMAIN map)
  IN [i \in 1..Len(keys) |-> <<keys[i], NodeToJSON(map[keys[i]])>>]

serializeLayerToNodes(map) ==
  LET layers == SortedSeq(DOMAIN map)
  IN [i \in 1..Len(layers) |->
        <<layers[i], [j \in 1..Len(map[layers[i]]) |->
                        NodeToJSON(map[layers[i]][j])]>>]

\* Array.isArray(rootNodes): the maps of the model have the key 0 or no key
\* 1, so a non-empty map is never taken for an array
IsArray(rootNodes) == DOMAIN rootNodes = 1..Cardinality(DOMAIN rootNodes)

\* Tree.toJSON
toJSON(tree) ==
  [allNodes |-> serializeNodeMap(tree.allNodes),
   rootNodes |-> IF IsArray(tree.rootNodes)
                 THEN [i \in 1..Len(tree.rootNodes) |->
                         <<tree.rootNodes[i].index, NodeToJSON(tree.rootNodes[i])>>]
                 ELSE serializeNodeMap(tree.rootNodes),
   leafNodes |-> serializeNodeMap(tree.leafNodes),
   numLayers |-> tree.numLayers,
   layerToNodes |-> serializeLayerToNodes(tree.layerToNodes)]

\* entries.forEach(([key, nodeData]) => map.set(key, Node.fromJSON(nodeData)))
RECURSIVE deserializeNodeMap(_)
deserializeNodeMap(entries) ==
  IF entries = <<>> THEN EmptyMap
  ELSE LET n == Len(entries)
       IN MapSet(deserializeNodeMap(SubSeq(entries, 1, n - 1)),
                 entries[n][1], NodeFromJSON(entries[n][2]))

RECURSIVE deserializeLayerToNodes(_)
deserializeLayerToNodes(entries) ==
  IF entries = <<>> THEN EmptyMap
  ELSE LET n == Len(entries)
           nodesData == entries[n][2]
       IN MapSet(deserializeLayerToNodes(SubSeq(entries, 1, n - 1)),
                 entries[n][1],
                 [j \in 1..Len(nodesData) |-> NodeFromJSON(nodesData[j])])

\* Tree.fromJSON
fromJSON(data) ==
  Tree(deserializeNodeMap(data.allNodes), deserializeNodeMap(data.rootNodes),
       deserializeNodeMap(data.leafNodes), data.numLayers,
       deserializeLayerToNodes(data.layerToNodes))

\* the trees that are serialized: each with its rootNodes as a Map and as
\* an array
SerializedTrees ==
  LET trees == CollapseTrees \cup TraverseTrees
  IN trees \cup {[t EXCEPT !.rootNodes = MapValues(@)] : t \in trees}

\* Tree.fromJSON(tree.toJSON())
RoundTripCall(tree) ==
  /\ call = NoCall
  /\ call' = [fn |-> "roundTrip", tree |-> tree, result |-> fromJSON(toJSON(tree))]
  /\ UNCHANGED <<builder, builds, retriever, retrieval, ra>>

NextRoundTrip == \E tree \in SerializedTrees : RoundTripCall(tree)

SpecRoundTrip == InitCall /\ [][NextRoundTrip]_vars

(***************************************************************************)
(* RetrievalAugmentation: documents and collections                        *)
(***************************************************************************)
\* the ids createCollection can give, col_<uuid>
CollectionIds == {"col_1", "col_2"}

\* what a caller passes as a collection: a name, an id, an id that was
\* never given
CollectionNames == {"papers", "notes"}
CollectionRefs == CollectionNames \cup CollectionIds \cup {"col_0"}

\* collectionId.startsWith('col_')
StartsWithCol(s) == s \notin CollectionNames

CollectionNotFound(collectionId) ==
  [kind |-> "CollectionNotFound", collection |-> collectionId]

\* FileSystemCollectionStorage.getCollection: the file <id>.json, or null
getCollection(collections, id) ==
  IF id \in DOMAIN collections THEN {collections[id]} ELSE {}

\* the ids documentStorage.save gives to n new documents
NewDocuments(documents, n) ==
  (Cardinality(documents) + 1)..(Cardinality(documents) + n)

\* addDocumentsBatch(documents, {collection}): n documents are saved; with
\* a collection name a collection is created under a new id; the documents
\* are added to the collection of the id, which fails when there is none;
\* then the saved documents are indexed.  collection "" is no collection
AddDocumentsBatch(n, collection) ==
  LET savedDocIds == NewDocuments(ra.documents, n)
      saved == [ra EXCEPT !.documents = @ \cup savedDocIds]
  IN /\ Cardinality(ra.documents) + n <= MaxDocs
     /\ IF collection = ""
        THEN /\ ra' = [saved EXCEPT !.indexed = @ \o SortedSeq(savedDocIds)]
             /\ call' = [fn |-> "addDocumentsBatch", collectionId |-> collection,
                         documents |-> savedDocIds, error |-> NoError]
        ELSE \E newId \in IF StartsWithCol(collection) THEN {collection}
                          ELSE CollectionIds \ DOMAIN ra.collections :
               LET created == IF StartsWithCol(collection) THEN ra.collections
                              ELSE MapSet(ra.collections, newId,
                                          [name |-> collection, documentIds |-> {}])
                   collectionId == IF StartsWithCol(collection) THEN collection
                                   ELSE newId
                   found == getCollection(created, collectionId)
               IN IF found = {}
                  THEN /\ ra' = [saved EXCEPT !.collections = created]
                       /\ call' = [fn |-> "addDocumentsBatch",
                                   collectionId |-> collection,
                                   documents |-> savedDocIds,
                                   error |-> CollectionNotFound(collectionId)]
                  ELSE /\ ra' = [saved EXCEPT
                                   !.collections = [created EXCEPT
                                      ![collectionId].documentIds = @ \cup savedDocIds],
                                   !.indexed = @ \o SortedSeq(savedDocIds)]
                       /\ call' = [fn |-> "addDocumentsBatch",
                                   collectionId |-> collection,
                                   documents |-> savedDocIds, error |-> NoError]
     /\ UNCHANGED <<builder, builds, retriever, retrieval>>

\* addCollection(collectionId): the documents of the collection are indexed
AddCollection(collectionId) ==
  LET found == getCollection(ra.collections, collectionId)
  IN /\ \A c \in found :
          Len(ra.indexed) + Cardinality(c.documentIds) <= 2 * MaxDocs
     /\ IF found = {}
        THEN /\ call' = [fn |-> "addCollection", collectionId |-> collectionId,
                         documents |-> {},
                         error |-> CollectionNotFound(collectionId)]
             /\ UNCHANGED ra
        ELSE LET collection == CHOOSE c \in found : TRUE
             IN /\ call' = [fn |-> "addCollection", collectionId |-> collectionId,
                            documents |-> collection.documentIds,
                            error |-> NoError]
                /\ ra' = [ra EXCEPT !.indexed = @ \o SortedSeq(collection.documentIds)]
     /\ UNCHANGED <<builder, builds, retriever, retrieval>>

NextCollections ==
  \/ \E n \in 1..2, collection \in CollectionRefs \cup {""} :
       AddDocumentsBatch(n, collection)
  \/ \E collectionId \in CollectionRefs : AddCollection(collectionId)

SpecCollections == InitCall /\ [][NextCollections]_vars

(***************************************************************************)
(* FileSystemDocumentStorage: the concurrent saves of one batch            *)
(***************************************************************************)
\* the file index.json: absent, or the set of the ids it has an entry for
NoIndexFile == [exists |-> FALSE, entries |-> {}]
IndexFile(entries) == [exists |-> TRUE, entries |-> entries]

\* a storage directory: the content files (documents) and index.json
Storage(documents, index) ==
  [documents |-> documents, collections |-> EmptyMap, indexed |-> <<>>,
   index |-> index]

\* a new directory, one with an empty index, one that holds a document
Storages ==
  {Storage({}, NoIndexFile), Storage({}, IndexFile({})), Storage({1}, IndexFile({1}))}

\* the save calls of a batch
Saves == IF call = NoCall THEN {} ELSE 1..Len(call.saves)

\* save i of the batch is at the given step
SaveAt(i, pc) == i \in Saves /\ call.saves[i].pc = pc

\* batch.map(async doc => { const id = await this.documentStorage.save(doc)
\* ... }) under Promise.all: every save of the batch is started; the ids
\* generateId will give are distinct and new
StartBatch(n) ==
  /\ call = NoCall
  /\ LET ids == SortedSeq(NewDocuments(ra.documents, n))
     IN call' = [fn |-> "addDocumentsBatch",
                 saves |-> [i \in 1..n |-> [pc |-> "initialize", id |-> ids[i],
                                            index |-> {}]]]
  /\ UNCHANGED <<builder, builds, retriever, retrieval, ra>>

\* initialize(): the directories are made and fs.access(indexPath) settles
SaveAccess(i) ==
  /\ SaveAt(i, "initialize")
  /\ call' = [call EXCEPT !.saves[i].pc =
                IF ra.index.exists THEN "write" ELSE "saveIndex"]
  /\ UNCHANGED <<builder, builds, retriever, retrieval, ra>>

\* initialize(): access failed, so await this.saveIndex({})
SaveEmptyIndex(i) ==
  /\ SaveAt(i, "saveIndex")
  /\ ra' = [ra EXCEPT !.index = IndexFile({})]
  /\ call' = [call EXCEPT !.saves[i].pc = "write"]
  /\ UNCHANGED <<builder, builds, retriever, retrieval>>

\* save(): the content file and the metadata file are written
SaveWriteFiles(i) ==
  /\ SaveAt(i, "write")
  /\ ra' = [ra EXCEPT !.documents = @ \cup {call.saves[i].id}]
  /\ call' = [call EXCEPT !.saves[i].pc = "loadIndex"]
  /\ UNCHANGED <<builder, builds, retriever, retrieval>>

\* save(): const index = await this.loadIndex(), {} when there is no file
SaveLoadIndex(i) ==
  /\ SaveAt(i, "loadIndex")
  /\ call' = [call EXCEPT !.saves[i].pc = "update",
                          !.saves[i].index = ra.index.entries]
  /\ UNCHANGED <<builder, builds, retriever, retrieval, ra>>

\* the entries saveIndex writes after index[id] = {...}
WithEntry(index, id) == index \cup {id}

\* save(): index[id] = {...}; await this.saveIndex(index); return id
SaveUpdateIndex(i) ==
  /\ SaveAt(i, "update")
  /\ ra' = [ra EXCEPT !.index =
              IndexFile(WithEntry(call.saves[i].index, call.saves[i].id))]
  /\ call' = [call EXCEPT !.saves[i].pc = "saved"]
  /\ UNCHANGED <<builder, builds, retriever, retrieval>>

InitSave ==
  /\ builder = IdleBuilder
  /\ builds = [b \in Builds |-> IdleBuild]
  /\ retriever = NoRetriever
  /\ retrieval = NoRetrieval
  /\ call = NoCall
  /\ ra \in Storages

NextSave ==
  \/ \E n \in 1..MaxSaves : StartBatch(n)
  \/ \E i \in 1..MaxSaves :
       \/ SaveAccess(i)
       \/ SaveEmptyIndex(i)
       \/ SaveWriteFiles(i)
       \/ SaveLoadIndex(i)
       \/ SaveUpdateIndex(i)

SpecSave == InitSave /\ [][NextSave]_vars

(***************************************************************************)
(* IncrementalIndexer                                                      *)
(***************************************************************************)
\* config.reindexThresholdPercent and config.maxIncrementalDocuments of a
\* new IndexingState
ReindexThresholdPercent == 10
MaxIncrementalDocuments == 10

Document(id, content) == [id |-> id, content |-> content]

\* the contents of the documents: one sentence, two sentences
DocumentContents == {<<"a", ".">>, <<"a", ".", "a", ".">>}

NoSnapshot == [numLayers |-> -1]

\* loadOrCreateState(): a new IndexingState
NewIndexingState ==
  [totalTokens |-> 0, totalDocuments |-> 0, documentIds |-> <<>>,
   treeSnapshot |-> NoSnapshot]

\* the document storage and the indexer's state
Indexer(documents, indexingState) ==
  [documents |-> documents, indexingState |-> indexingState]

\* Array.prototype.join('\n\n')
RECURSIVE JoinParagraphs(_)
JoinParagraphs(texts) ==
  IF texts = <<>> THEN <<>>
  ELSE IF Len(texts) = 1 THEN texts[1]
  ELSE texts[1] \o <<"\n", "\n">> \o JoinParagraphs(Tail(texts))

Contents(documents) == [i \in 1..Len(documents) |-> documents[i].content]

Ids(documents) == [i \in 1..Len(documents) |-> documents[i].id]

calculateTokenCount(documents) ==
  SeqSum([i \in 1..Len(documents) |-> Encode(documents[i].content)])

\* the contents of the chunks of chunkDocument(document): TokenBasedChunking
\* with the builder's maxTokens and no overlap
chunkDocument(document) == splitText(document.content, builder.maxTokens, 0)

\* loadDocuments(ids): the stored documents of the ids, the ids without a
\* document dropped
loadDocuments(stored, ids) ==
  LET found == SelectIdx(ids, {i \in 1..Len(ids) : ids[i] \in DOMAIN stored})
  IN [i \in 1..Len(found) |-> Document(found[i], stored[found[i]])]

\* this.numLayers after a build that stopped at layer 0
NumLayersAfterStop(numLayers) == IF 0 < numLayers THEN 0 ELSE numLayers

\* treeBuilder.buildFromText(text) for a text of at most
\* reductionDimension + 1 chunks: constructTree stops at layer 0 and the
\* leaves are the roots
buildFromText(text) ==
  LET leafNodes == LeafNodes(splitText(text, builder.maxTokens, 0),
                             builder.embeddingModels)
  IN Tree(leafNodes, leafNodes, leafNodes, NumLayersAfterStop(builder.numLayers),
          MapSet(EmptyMap, 0, MapValues(leafNodes)))

incrementalIndex(state, stored, documents) ==
  LET chunks == Flatten([i \in 1..Len(documents) |-> chunkDocument(documents[i])])
      documentIds == state.documentIds \o Ids(documents)
      firstOrEmpty == state.treeSnapshot = NoSnapshot \/ Len(chunks) = 0
      allDocuments == loadDocuments(stored, documentIds)
      tree == IF firstOrEmpty
              THEN buildFromText(JoinParagraphs(chunks))
              ELSE buildFromText(JoinParagraphs(Contents(allDocuments)))
  IN [state |-> [totalTokens |-> IF firstOrEmpty THEN state.totalTokens
                                 ELSE calculateTokenCount(allDocuments),
                 totalDocuments |-> state.totalDocuments + Len(documents),
                 documentIds |-> documentIds,
                 treeSnapshot |-> toJSON(tree)],
      tree |-> tree]

reindexWithOptimization(state, stored, newDocuments) ==
  LET allDocIds == state.documentIds \o Ids(newDocuments)
      allDocuments == loadDocuments(stored, allDocIds)
      tree == buildFromText(JoinParagraphs(Contents(allDocuments)))
  IN [state |-> [totalTokens |-> calculateTokenCount(allDocuments),
                 totalDocuments |-> Len(allDocuments),
                 documentIds |-> allDocIds,
                 treeSnapshot |-> toJSON(tree)],
      tree |-> tree]

\* tokenIncreasePercent > reindexThresholdPercent, the percentage being
\* newTokenCount / totalTokens * 100, or 0 when totalTokens is 0
ExceedsThreshold(newTokenCount, totalTokens) ==
  /\ totalTokens > 0
  /\ newTokenCount * 100 > ReindexThresholdPercent * totalTokens

\* IncrementalIndexer.addDocuments: the new state and the returned tree
addDocuments(state, stored, documents, forceReindex) ==
  LET newTokenCount == calculateTokenCount(documents)
      shouldReindex == \/ forceReindex
                       \/ ExceedsThreshold(newTokenCount, state.totalTokens)
                       \/ Len(documents) > MaxIncrementalDocuments
  IN IF shouldReindex /\ state.totalDocuments > 0
     THEN reindexWithOptimization(state, stored, documents)
     ELSE incrementalIndex(state, stored, documents)

\* a call of incrementalIndexer.addDocuments on the stored documents: the
\* build stops at layer 0 (and writes that to the builder's numLayers)
IndexerCall(stored, documents, forceReindex) ==
  LET result == addDocuments(ra.indexingState, stored, documents, forceReindex)
  IN /\ Len(result.state.documentIds) <= MaxIndexed
     /\ StopsEarly(getNodeList(result.tree.leafNodes), builder.reductionDimension)
     /\ ra' = Indexer(stored, result.state)
     /\ call' = [fn |-> "addDocuments", documents |-> documents,
                 forceReindex |-> forceReindex,
                 before |-> ra.indexingState.treeSnapshot,
                 tree |-> result.tree]
     /\ builder' = [builder EXCEPT !.numLayers = NumLayersAfterStop(@)]
     /\ UNCHANGED <<builds, retriever, retrieval>>

\* addDocumentsBatch(documents): the documents are saved, then indexed
IndexBatch(contents) ==
  LET ids == SortedSeq(NewDocuments(DOMAIN ra.documents, Len(contents)))
      saved == [i \in 1..Len(contents) |-> Document(ids[i], contents[i])]
      stored == [id \in DOMAIN ra.documents \cup Range(ids) |->
                   IF id \in DOMAIN ra.documents THEN ra.documents[id]
                   ELSE contents[id - Cardinality(DOMAIN ra.documents)]]
  IN /\ Cardinality(DOMAIN stored) <= MaxDocs
     /\ IndexerCall(stored, saved, FALSE)

\* addCollection(collectionId): the stored documents of the collection,
\* possibly none, are indexed
IndexCollection(documentIds) ==
  IndexerCall(ra.documents, loadDocuments(ra.documents, SortedSeq(documentIds)),
              FALSE)

\* forceReindex(): addDocuments([], true) once there is an indexing state
ForceReindex ==
  /\ call # NoCall
  /\ IndexerCall(ra.documents, <<>>, TRUE)

InitIndexer ==
  /\ builder \in {c \in BuilderConfigs :
                    c.reductionDimension = 10 /\ c.clusterEmbeddingModel = "OpenAI"}
  /\ builds = [b \in Builds |-> IdleBuild]
  /\ retriever = NoRetriever
  /\ retrieval = NoRetrieval
  /\ call = NoCall
  /\ ra = Indexer(EmptyMap, NewIndexingState)

NextIndexer ==
  \/ \E n \in 1..2 : \E contents \in [1..n -> DocumentContents] : IndexBatch(contents)
  \/ \E documentIds \in SUBSET DOMAIN ra.documents : IndexCollection(documentIds)
  \/ ForceReindex

SpecIndexer == InitIndexer /\ [][NextIndexer]_vars

(***************************************************************************)
(* Properties of the builds                                                *)
(***************************************************************************)
LayerNodes(layerToNodes) ==
  UNION {Range(layerToNodes[l]) : l \in DOMAIN layerToNodes}

TreeNodes(t) == Range(t.allNodes) \cup Range(t.rootNodes) \cup LayerNodes(t.layerToNodes)

Lacking(nodes, model) == {n \in nodes : model \notin DOMAIN n.embeddings}

StrictlyIncreasing(s) == \A i, j \in 1..Len(s) : i < j => s[i] < s[j]

\* C1: during one buildFromText the indices given to createNode, the
\* leaves' and then the parents', are strictly increasing in creation order
\* (so pairwise distinct), and no allNodes / newLevelNodes entry is
\* overwritten: the maps hold as many nodes as were created.
C1_IndicesUniqueIncreasing ==
  \A b \in Builds :
    /\ StrictlyIncreasing(builds[b].created)
    /\ Cardinality(DOMAIN builds[b].allNodes \cup DOMAIN builds[b].newLevelNodes)
         = Len(builds[b].created)

\* a finished build with three parents in layer 1: with two components per
\* mixture that takes a recursive re-clustering
C1_Witness ==
  \E b \in Builds :
    /\ builds[b].pc = "done"
    /\ 1 \in DOMAIN builds[b].tree.layerToNodes
    /\ Len(builds[b].tree.layerToNodes[1]) >= 3

\* C2: in every returned Tree the children of every node are keys of
\* allNodes, and every node of layer 0 has no children.
C2_ChildrenResolve ==
  \A b \in Builds :
    builds[b].pc = "done" =>
      LET t == builds[b].tree
      IN /\ \A n \in TreeNodes(t) : n.children \subseteq DOMAIN t.allNodes
         /\ \A n \in Range(t.layerToNodes[0]) : n.children = {}

\* a returned tree with two layers above the leaves
C2_Witness ==
  \E b \in Builds :
    /\ builds[b].pc = "done"
    /\ 2 \in DOMAIN builds[b].tree.layerToNodes
    /\ builds[b].tree.layerToNodes[2] # <<>>

\* C3: in every returned Tree, layerToNodes has exactly the keys
\* 0..numLayers.
C3_NumLayersIsLayerCount ==
  \A b \in Builds :
    builds[b].pc = "done" =>
      DOMAIN builds[b].tree.layerToNodes = 0..builds[b].tree.numLayers

ClusteredLayers(b) ==
  {l \in DOMAIN builds[b].layerToNodes :
     \/ l < builds[b].layer
     \/ /\ l = builds[b].layer
        /\ \/ builds[b].pc = "summarize"
           \/ builds[b].pc = "cluster" /\ ~builds[b].stack[1].fresh}

NumLeaves(b) == Cardinality(DOMAIN builds[b].leafNodes)

C10_LayeredTreeHasRoots ==
  \A b \in Builds :
    (builds[b].pc = "done" /\ 1 \in DOMAIN builds[b].tree.layerToNodes)
      => /\ builds[b].tree.numLayers >= 1
         /\ DOMAIN builds[b].tree.rootNodes # {}

\* C11: every recursive call of performClustering is given strictly fewer
\* nodes than the call that made it.
C11_RecursionShrinks ==
  \A b \in Builds :
    \A i \in 2..Len(builds[b].stack) :
      Len(builds[b].stack[i].nodes) < Len(builds[b].stack[i - 1].nodes)

\* a call of performClustering has returned its clusters
Clustered(b) == builds[b].pc = "summarize" /\ builds[b].stack = <<>>

\* C12: two runs of performClustering on the same node list with the same
\* parameters return the same clusters in the same order.
C12_SameClusters ==
  \A b, c \in Builds :
    (Clustered(b) /\ Clustered(c)) => builds[b].clusters = builds[c].clusters

\* C13: no node is a member of two clusters of its layer: two different
\* parent nodes never have a child in common.
C13_ClustersDisjoint ==
  \A b \in Builds :
    \A p, q \in Range(builds[b].allNodes) \cup Range(builds[b].newLevelNodes) :
      p.index # q.index => p.children \cap q.children = {}


\* the number of nodes of the layer build b is at
LayerSize(b) == Len(getNodeList(builds[b].current))

\* a step of build b from the head of constructTree's layer loop
AtLoopHead(b) == builds[b].pc = "loop" /\ builds'[b] # builds[b]

\* C21: constructTree builds layer L + 1 only when layer L has more than
\* reductionDimension + 1 nodes; when the stop test finds at most that many
\* it stops at once: nothing is added to layerToNodes or allNodes, L is
\* written to numLayers, and the nodes of layer L are returned as the roots.
C21_EarlyStop ==
  /\ [](\A b \in Builds :
          /\ \A l \in DOMAIN builds[b].layerToNodes :
               l >= 1 => Len(builds[b].layerToNodes[l - 1]) > builder.reductionDimension + 1
          /\ builds[b].pc \in {"return", "done"} =>
               MapValues(builds[b].current) = builds[b].layerToNodes[builds[b].layer]
          /\ builds[b].pc = "done" => builds[b].tree.rootNodes = builds[b].current)
  /\ [][\A b \in Builds :
          AtLoopHead(b) =>
            /\ builds'[b].pc = "cluster" =>
                 LayerSize(b) > builder.reductionDimension + 1
            /\ (/\ builds[b].layer < builder.numLayers
                /\ LayerSize(b) <= builder.reductionDimension + 1) =>
                 /\ builds'[b].pc = "return"
                 /\ builder'.numLayers = builds[b].layer
                 /\ builds'[b].layerToNodes = builds[b].layerToNodes
                 /\ builds'[b].allNodes = builds[b].allNodes
                 /\ builds'[b].current = builds[b].current]_vars

\* constructTree has stopped at layer 0 of a text of several leaves: the
\* stop test wrote 0 to numLayers (no builder is configured with 0 layers)
C21_Witness ==
  \E b \in Builds :
    /\ builds[b].pc = "return"
    /\ builds[b].layer = 0
    /\ NumLeaves(b) >= 2
    /\ builder.numLayers = 0
    /\ \A c \in Builds : c # b => builds[c].pc = "idle"


\* the clusters the calls of performClustering of build b have pushed to
\* their nodeClusters, and the clusters returned to constructTree
NodeClusters(b) ==
  UNION {Range(builds[b].stack[i].acc) : i \in 1..Len(builds[b].stack)}
    \cup Range(builds[b].clusters)

\* C22: every cluster of two or more members that performClustering puts
\* into its result has a summed token count of at most maxLengthInCluster
\* (no cluster is empty; a cluster of one member is kept whatever its size).
C22_ClustersWithinCap ==
  \A b \in Builds :
    \A cluster \in NodeClusters(b) :
      /\ Len(cluster) >= 1
      /\ Len(cluster) >= 2 => totalLength(cluster) <= DefaultMaxLengthInCluster

\* performClustering has returned a cluster of two members for a layer
\* whose nodes together exceed the cap: the layer was re-clustered
C22_Witness ==
  \E b \in Builds :
    /\ Clustered(b)
    /\ totalLength(getNodeList(builds[b].current)) > DefaultMaxLengthInCluster
    /\ \E cluster \in Range(builds[b].clusters) : Len(cluster) >= 2


\* the fewest layers a builder of the model is configured with
ConfiguredLayers ==
  CHOOSE n \in {c.numLayers : c \in BuilderConfigs} :
    \A c \in BuilderConfigs : n <= c.numLayers

\* C24: every build attempts the layers below the configured numLayers,
\* whatever the builds before it did: at a layer below the configured count
\* that has more than reductionDimension + 1 nodes, constructTree goes on
\* to cluster the layer.
C24_EveryBuildAttemptsConfiguredLayers ==
  [][\A b \in Builds :
       (/\ AtLoopHead(b)
        /\ builds[b].layer < ConfiguredLayers
        /\ LayerSize(b) > builder.reductionDimension + 1)
         => builds'[b].pc = "cluster"]_vars


(***************************************************************************)
(* Properties of the retrievals                                            *)
(***************************************************************************)
Returned(mode) == retrieval.pc = "done" /\ retrieval.mode = mode

TokenSum(nodes) == SeqSum([i \in 1..Len(nodes) |-> nodes[i].tokens])

\* the tree nodes that carry the context embedding, nearest to the query
\* first, equally distant ones by ascending index
NearestFirst ==
  LET has(n) == retriever.contextEmbeddingModel \in DOMAIN n.embeddings
      kept == SelectSeq(getNodeList(retriever.tree.allNodes), has)
      dist(n) == cosineDistance(retrieval.queryEmbedding,
                                n.embeddings[retriever.contextEmbeddingModel]).val
      rank(i) == Cardinality({j \in 1..Len(kept) :
                   \/ dist(kept[j]) < dist(kept[i])
                   \/ dist(kept[j]) = dist(kept[i]) /\ kept[j].index < kept[i].index})
  IN [p \in 1..Len(kept) |-> kept[CHOOSE i \in 1..Len(kept) : rank(i) = p - 1]]

\* the nodes a retrieval has scored: the whole tree when collapsed, else the
\* start layer and the children of the nodes chosen in every iteration but
\* the last
Candidates ==
  IF retrieval.mode = "collapsed" THEN Range(retriever.tree.allNodes)
  ELSE IF retrieval.pc \in {"idle", "failed"} THEN {}
  ELSE Range(retriever.tree.layerToNodes[retrieval.startLayer])
       \cup {n \in Range(retriever.tree.allNodes) :
               \E i \in 1..Min(Len(retrieval.rounds), retrieval.numLayers - 1) :
                 \E p \in Range(retrieval.rounds[i]) : n.index \in p.children}

\* C4: the token counts of the nodes a collapsed-tree retrieval returns sum
\* to at most maxTokens, whatever the tree, the query, topK and maxTokens
C4_CollapsedWithinBudget ==
  Returned("collapsed") => TokenSum(retrieval.selectedNodes) <= retrieval.maxTokens

\* a collapsed-tree retrieval that kept some nodes and was stopped by the
\* budget before topK nodes
C4_Witness ==
  /\ Returned("collapsed")
  /\ Lacking(Range(retriever.tree.allNodes), retriever.contextEmbeddingModel) = {}
  /\ retrieval.selectedNodes # <<>>
  /\ Len(retrieval.selectedNodes) < Min(retrieval.topK, Len(NearestFirst))
  /\ TokenSum(retrieval.selectedNodes)
       + NearestFirst[Len(retrieval.selectedNodes) + 1].tokens > retrieval.maxTokens

\* C5: the nodes a collapsed-tree retrieval returns are a prefix of the
\* tree's nodes in ascending distance (ties by ascending index), at most
\* topK long, and the prefix ends where the next node would overflow
\* maxTokens
C5_SelectedIsNearestPrefix ==
  Returned("collapsed") =>
    LET selected == retrieval.selectedNodes
        k == Len(selected)
    IN /\ k <= Min(retrieval.topK, Len(NearestFirst))
       /\ selected = SubSeq(NearestFirst, 1, k)
       /\ k < Min(retrieval.topK, Len(NearestFirst)) =>
            TokenSum(selected) + NearestFirst[k + 1].tokens > retrieval.maxTokens

\* C6: in a layer traversal the nodes selected in iteration 0 are nodes of
\* the start layer, the nodes selected in a later iteration are children of
\* nodes selected in the iteration before, and nothing else is returned
C6_DescentPath ==
  (retrieval.mode = "layers" /\ retrieval.pc \in {"loop", "done"}) =>
    /\ retrieval.selectedNodes = Flatten(retrieval.rounds)
    /\ \A i \in 1..Len(retrieval.rounds) :
         \A n \in Range(retrieval.rounds[i]) :
           IF i = 1
           THEN n \in Range(retriever.tree.layerToNodes[retrieval.startLayer])
           ELSE \E p \in Range(retrieval.rounds[i - 1]) : n.index \in p.children

\* a traversal of two iterations that selected a child in the second and
\* left out a node of the layer below whose parents were not chosen
C6_Witness ==
  /\ Returned("layers")
  /\ Len(retrieval.rounds) = 2
  /\ retrieval.rounds[2] # <<>>
  /\ \E p \in Range(retriever.tree.layerToNodes[retrieval.startLayer]) :
       /\ p \notin Range(retrieval.rounds[1])
       /\ \E c \in p.children :
            /\ \A q \in Range(retrieval.rounds[1]) : c \notin q.children
            /\ \A n \in Range(retrieval.selectedNodes) : n.index # c

\* C7: a retrieval, collapsed or by layers, that scored a node lacking the
\* context embedding does not return: it fails with an error that names the
\* node and the model
C7_MissingEmbeddingFails ==
  \A n \in Lacking(Candidates, retriever.contextEmbeddingModel) :
    /\ retrieval.pc # "done"
    /\ retrieval.pc = "failed" =>
         retrieval.error = MissingEmbedding(n.index, retriever.contextEmbeddingModel)

\* a step that runs one iteration of the loop of retrieveInformation
Iterates == retrieval.pc = "loop" /\ retrieval'.layer = retrieval.layer + 1

\* the nodes the iteration has selected
LastRound == retrieval'.rounds[Len(retrieval'.rounds)]

\* the distance of a node that carries the context embedding to the query
DistanceOf(n) ==
  cosineDistance(retrieval.queryEmbedding,
                 n.embeddings[retriever.contextEmbeddingModel])

\* the positions of nodeList in ascending order of their nodes' distance,
\* equally distant ones in list order; I is the set of positions to order,
\* all of nodes that carry the context embedding
RECURSIVE ByDistance(_, _)
ByDistance(nodeList, I) ==
  IF I = {} THEN <<>>
  ELSE LET first == CHOOSE i \in I : \A j \in I \ {i} :
                      \/ Less(DistanceOf(nodeList[i]), DistanceOf(nodeList[j]))
                      \/ /\ ~Less(DistanceOf(nodeList[j]), DistanceOf(nodeList[i]))
                         /\ i < j
       IN <<nodeList[first]>> \o ByDistance(nodeList, I \ {first})

\* the positions of the candidates that carry the context embedding
Scored(nodeList) ==
  {i \in 1..Len(nodeList) :
     retriever.contextEmbeddingModel \in DOMAIN nodeList[i].embeddings}

\* C23: with selectionMode = threshold every iteration of a layer traversal
\* selects exactly the candidates whose cosine distance to the query is
\* greater than the threshold, in ascending order of distance.
C23_ThresholdKeepsFarther ==
  [][(Iterates /\ retriever.selectionMode = "threshold") =>
       LastRound =
         ByDistance(retrieval.nodeList,
                    {i \in Scored(retrieval.nodeList) :
                       Less(Num(retriever.threshold),
                            DistanceOf(retrieval.nodeList[i]))})]_vars

\* the first n entries of ranked are the entries of selected
IsPrefix(selected, ranked) ==
  /\ Len(selected) <= Len(ranked)
  /\ selected = SubSeq(ranked, 1, Len(selected))

\* C26: in both retrieval modes the k-th selected node is the candidate
\* whose context embedding is the k-th nearest to the query (equally
\* distant candidates in list order), whether or not some candidates lack
\* the embedding: the nodes a collapsed-tree retrieval returns, and the
\* nodes a top_k iteration of a layer traversal selects, are a prefix of the
\* candidates that carry the embedding in ascending order of distance.
C26_RankedByOwnDistance ==
  /\ [](Returned("collapsed") => IsPrefix(retrieval.selectedNodes, NearestFirst))
  /\ [][(Iterates /\ retriever.selectionMode = "top_k") =>
          IsPrefix(LastRound,
                   ByDistance(retrieval.nodeList, Scored(retrieval.nodeList)))]_vars

\* C27: in a layer traversal with selectionMode = top_k every iteration
\* selects at most topK nodes, topK being the argument of the call of
\* retrieve.
C27_CallTopKBoundsIteration ==
  (retrieval.mode = "layers" /\ retriever.selectionMode = "top_k") =>
    \A i \in 1..Len(retrieval.rounds) :
      Len(retrieval.rounds[i]) <= retrieval.topK

(***************************************************************************)
(* Properties of splitText                                                 *)
(***************************************************************************)
\* a call splitText(text, maxTokens, 0) has returned
SplitReturned == call.fn = "splitText" /\ call.overlap = 0

\* the number of maximal runs of s of characters outside the set W
Runs(s, W) ==
  Cardinality({i \in 1..Len(s) : s[i] \notin W /\ (i = 1 \/ s[i - 1] \in W)})

\* the whitespace-separated words of s
WordCount(s) == Runs(s, Whitespace)

\* the words of s when the delimiters separate words as whitespace does
UnitCount(s) == Runs(s, Whitespace \cup Delimiters \cup SubDelimiters)

\* C14 as stated: splitText("A. B. C.", 1000) returns the three chunks
\* "A", "B", "C".
C14_ThreeChunks ==
  (SplitReturned /\ call.text = ABC /\ call.maxTokens = 1000) =>
    call.chunks = << <<"A">>, <<"B">>, <<"C">> >>

\* C14: splitText("A. B. C.", 1000), where the three sentences fit the
\* budget together, returns the one chunk "A  B  C": the sentences without
\* their full stops, each with the blank it began with, joined by blanks.
C14_OneChunk ==
  (SplitReturned /\ call.text = ABC /\ call.maxTokens = 1000) =>
    call.chunks = << <<"A", " ", " ", "B", " ", " ", "C">> >>

C14_Witness ==
  SplitReturned /\ call.text = ABC /\ call.maxTokens = 1000 /\ Len(call.chunks) = 1

\* C15 as stated: with overlap 0 the whitespace-separated words of the
\* chunks are as many as those of the input.
C15_WordsPreserved ==
  SplitReturned =>
    SeqSum([i \in 1..Len(call.chunks) |-> WordCount(call.chunks[i])])
      = WordCount(call.text)

\* C15: with overlap 0 splitText keeps every word, a word being a maximal
\* run of characters other than whitespace and the delimiters . ! ? , ; :
\* the words of the chunks are as many as those of the input.
C15_UnitsPreserved ==
  SplitReturned =>
    SeqSum([i \in 1..Len(call.chunks) |-> UnitCount(call.chunks[i])])
      = UnitCount(call.text)

\* a text of several words, two of them separated by a delimiter only, is
\* split into several chunks
C15_Witness ==
  /\ SplitReturned
  /\ Len(call.chunks) >= 2
  /\ UnitCount(call.text) > WordCount(call.text)

\* C16: with overlap 0 every chunk holds at most maxTokens tokens, counted
\* as splitText counts them: one blank before each piece joined into it.
C16_ChunksWithinBudget ==
  SplitReturned =>
    \A i \in 1..Len(call.chunks) :
      Encode(<<" ">> \o call.chunks[i]) <= call.maxTokens

\* the characters of s that are neither whitespace nor delimiters, in order
Letters(s) ==
  SelectIdx(s, {i \in 1..Len(s) :
                  s[i] \notin Whitespace \cup Delimiters \cup SubDelimiters})

\* C25: with overlap 0 splitText keeps the order of the input: the chunks
\* read in order give the words of the sentences and sub-sentences in the
\* order of the text.
C25_OrderPreserved ==
  SplitReturned => Letters(Flatten(call.chunks)) = Letters(call.text)

(***************************************************************************)
(* Properties of cosineDistance and of the nearest-neighbour order         *)
(***************************************************************************)
\* C17: cosineDistance of two vectors one of which has norm zero returns
\* the maximal distance 1 (the model's calls do not fail).
C17_ZeroNormIsMaximal ==
  (call.fn = "cosineDistance" /\ (Norm(call.a) = 0 \/ Norm(call.b) = 0)) =>
    call.result = Num(1)

\* C18: for an array of n distances that are numbers,
\* indicesOfNearestNeighborsFromDistances returns a permutation of 0..n-1
\* in ascending order of distance, equal distances in ascending order of
\* index; [0.3, 0.1, 0.2] gives [1, 2, 0].
C18_StableAscendingPermutation ==
  call.fn = "indicesOfNearestNeighborsFromDistances" =>
    LET d == call.distances
        r == call.indices
        n == Len(d)
    IN /\ Len(r) = n
       /\ {r[p] : p \in 1..n} = 0..(n - 1)
       /\ \A p, q \in 1..n :
            p < q => \/ Less(d[r[p] + 1], d[r[q] + 1])
                     \/ d[r[p] + 1] = d[r[q] + 1] /\ r[p] < r[q]
       /\ d = <<Num(3), Num(1), Num(2)>> => r = <<1, 2, 0>>

\* an array with two equal distances and a smaller one after them
C18_Witness ==
  /\ call.fn = "indicesOfNearestNeighborsFromDistances"
  /\ \E i, j, k \in 1..Len(call.distances) :
       /\ i < j /\ j < k
       /\ call.distances[i] = call.distances[j]
       /\ Less(call.distances[k], call.distances[i])

(***************************************************************************)
(* Properties of the serialization                                         *)
(***************************************************************************)
\* C19: Tree.fromJSON(tree.toJSON()) has the allNodes keys of tree, for
\* every node the same children and the same embeddings, the same
\* numLayers, and every index of its rootNodes, leafNodes and layerToNodes
\* is a key of its allNodes, whether tree.rootNodes is a Map or an array.
C19_RoundTrip ==
  call.fn = "roundTrip" =>
    LET t == call.tree
        r == call.result
    IN /\ DOMAIN r.allNodes = DOMAIN t.allNodes
       /\ \A i \in DOMAIN t.allNodes :
            /\ r.allNodes[i].children = t.allNodes[i].children
            /\ r.allNodes[i].embeddings = t.allNodes[i].embeddings
       /\ r.numLayers = t.numLayers
       /\ {n.index : n \in Range(r.rootNodes) \cup Range(r.leafNodes)
                              \cup LayerNodes(r.layerToNodes)}
            \cup DOMAIN r.rootNodes \cup DOMAIN r.leafNodes
              \subseteq DOMAIN r.allNodes
       /\ {n.index : n \in Range(r.rootNodes)} = {n.index : n \in Range(t.rootNodes)}

\* a tree with two roots held in an array, each with children, went round
C19_Witness ==
  /\ call.fn = "roundTrip"
  /\ IsArray(call.tree.rootNodes)
  /\ Len(call.tree.rootNodes) = 2
  /\ \A i \in 1..2 : call.tree.rootNodes[i].children # {}
  /\ DOMAIN call.result.rootNodes = {3, 4}

(***************************************************************************)
(* Properties of the collections                                           *)
(***************************************************************************)
\* the collections stored under a name that hold documents
Populated(name) ==
  {c \in Range(ra.collections) : c.name = name /\ c.documentIds # {}}

\* C20: addCollection(name), called after addDocumentsBatch has stored
\* documents under the collection name, does not fail with collection not
\* found: it indexes the documents of a collection of that name.
C20_CollectionFoundByName ==
  (call.fn = "addCollection" /\ Populated(call.collectionId) # {}) =>
    /\ call.error = NoError
    /\ \E c \in Populated(call.collectionId) : call.documents = c.documentIds

(***************************************************************************)
(* Properties of the document storage                                      *)
(***************************************************************************)
\* every save of the batch has returned its id
AllSaved == Saves # {} /\ \A i \in Saves : SaveAt(i, "saved")

\* C28: whatever the interleaving of the saves of a batch, once all of
\* them have completed index.json has an entry for every saved document
\* id, so list() returns all of them.
C28_IndexHoldsEverySavedId ==
  AllSaved => \A i \in Saves : call.saves[i].id \in ra.index.entries

(***************************************************************************)
(* Properties of the incremental indexer                                   *)
(***************************************************************************)
\* a call of IncrementalIndexer.addDocuments has completed
Indexed == call.fn = "addDocuments"

\* C29: addDocuments with no documents and forceReindex = false, called
\* when a tree snapshot exists, leaves the indexed tree as it was: the
\* returned tree and the stored snapshot have the nodes of the snapshot of
\* before.
C29_EmptyAddKeepsTree ==
  (/\ Indexed
   /\ call.documents = <<>>
   /\ ~call.forceReindex
   /\ call.before # NoSnapshot)
    => /\ toJSON(call.tree).allNodes = call.before.allNodes
       /\ ra.indexingState.treeSnapshot.allNodes = call.before.allNodes

\* C30: after every completed addDocuments call totalTokens is the summed
\* token count of the documents recorded in documentIds.
C30_TotalTokensMatchDocuments ==
  Indexed =>
    ra.indexingState.totalTokens =
      calculateTokenCount(loadDocuments(ra.documents, ra.indexingState.documentIds))

====
